---- MODULE Spec2Model ----
(***************************************************************************)
(* A model of hemantthanna/cas: the schema package (magic prefix, type     *)
(* registry, Encode / Decode / DecodeType / PeekType), the Linux local     *)
(* storage engine's staging handle (linuxTmpFile: Write, Close, Commit)    *)
(* and its temp-file strategy switch (Storage.tmpFile, noTmpFile).         *)
(*                                                                         *)
(* HashWith, the hashing of a file with the memoization index, is modelled *)
(* as well.                                                                *)
(*                                                                         *)
(* Five specifications share the module:                                   *)
(*   Spec       the staging handles and the blob directory                 *)
(*   SpecTmp    concurrent Storage.tmpFile calls and the noTmpFile flag    *)
(*   SpecSchema the type registry and the schema codec                     *)
(*   SpecHash   HashWith calls                                             *)
(*   SpecHandle one staging handle used sequentially, with the value each  *)
(*              call returns                                               *)
(***************************************************************************)
EXTENDS Integers, Sequences, FiniteSets, TLC

VARIABLES
    \* ---- storage/local: staging handles and the blob directory
    f,          \* f[h]: linuxTmpFile.f of handle h, "open" or "nil"
    fd,         \* fd[h]: the os.File behind handle h, "open" or "closed"
    data,       \* data[h]: the bytes of the staged file (inode) of handle h
    mode,       \* mode[h]: permission of the staged file, "rw" (0600) or "ro"
    pc,         \* pc[h]: position of the Commit call on handle h
    cref,       \* cref[h]: the ref argument of the Commit call on handle h
    ret,        \* ret[h]: what the Commit call that staged handle h returned
    blobDir,    \* the blob directory: a set of <<name, inode>> links
    memo,       \* refs for which SaveRefFile recorded a memoization entry
    pub,        \* history: pub[n] is the content name n had when first linked
    \* ---- storage/local: Storage.tmpFile
    noTmpFile,  \* the process-wide flag (int32)
    tpc,        \* tpc[w]: position of writer w in its tmpFile call
    tcalls,     \* tcalls[w]: tmpFile calls writer w has started
    tafter,     \* history: tafter[w], the fallbacks that had happened when
                \* writer w's current call started
    tanon,      \* history: tanon[w], the current call tried the O_TMPFILE open
    tres,       \* tres[w]: what writer w's latest tmpFile call returned
    tfell,      \* history: the unsupported conditions that caused a fallback
    \* ---- schema: the registry and the codec
    typesMap,   \* name -> shape
    typeToName, \* shape -> name
    nregs,      \* registerCAS / RegisterName calls made after package init
    stream,     \* the input stream handed to the decoders
    wobj,       \* the object last given to Encode
    wbuf,       \* what Encode wrote to its writer
    werr,       \* what Encode returned
    res,        \* the result of the last decoder call
    \* ---- HashWith
    hpc,        \* position of the HashWith call
    hforce,     \* its argument force
    hfile,      \* the bytes of the file at path
    hfd,        \* the os.File f: "none", "open" or "closed"
    hstat,      \* what StatFile returned, NoStat when it was not called
    hread,      \* the bytes io.Copy read from the file
    hsaved,     \* what SaveRefFile did: "none", "saved" or "failed"
    hret,       \* what HashWith returned
    \* ---- one staging handle used sequentially
    last        \* the latest call on the handle and what it returned

storeVars == <<f, fd, data, mode, pc, cref, ret, blobDir, memo, pub>>
tmpVars == <<noTmpFile, tpc, tcalls, tafter, tanon, tres, tfell>>
schemaVars == <<typesMap, typeToName, nregs, stream, wobj, wbuf, werr, res>>
hashVars == <<hpc, hforce, hfile, hfd, hstat, hread, hsaved, hret>>
vars == <<storeVars, tmpVars, schemaVars, hashVars, last>>

(***************************************************************************)
(* Byte strings.  A Go []byte / string / io.Reader content is a run-length *)
(* encoded sequence of <<byte, count>> pairs in canonical form (count >= 1,*)
(* adjacent runs hold different bytes), so that a stream of 16 MiB of      *)
(* padding is one run and lengths are plain arithmetic.  The operators    *)
(* that walk a string go run by run through a short one and split a long  *)
(* one in halves, so that the evaluation of a string of n runs nests to a *)
(* depth of log n.                                                        *)
(***************************************************************************)
FirstHalf(s) == SubSeq(s, 1, Len(s) \div 2)
SecondHalf(s) == SubSeq(s, (Len(s) \div 2) + 1, Len(s))

RECURSIVE BLen(_)
BLen(s) ==
    IF s = <<>> THEN 0
    ELSE IF Len(s) <= 4 THEN s[1][2] + BLen(Tail(s))
    ELSE BLen(FirstHalf(s)) + BLen(SecondHalf(s))

BCat(s, t) ==
    IF s = <<>> THEN t
    ELSE IF t = <<>> THEN s
    ELSE IF s[Len(s)][1] = t[1][1]
         THEN SubSeq(s, 1, Len(s) - 1)
              \o << <<t[1][1], s[Len(s)][2] + t[1][2]>> >> \o Tail(t)
         ELSE s \o t

RECURSIVE B(_)
B(chars) ==
    IF chars = <<>> THEN <<>>
    ELSE IF Len(chars) = 1 THEN << <<chars[1], 1>> >>
    ELSE BCat(B(FirstHalf(chars)), B(SecondHalf(chars)))

Rep(c, n) == IF n <= 0 THEN <<>> ELSE << <<c, n>> >>

RECURSIVE BTake(_, _)
\* the first k bytes of head \o tail, head being n bytes long
BTakeSplit(head, tail, n, k) ==
    IF k <= n THEN BTake(head, k) ELSE head \o BTake(tail, k - n)

BTake(s, k) ==
    IF k <= 0 \/ s = <<>> THEN <<>>
    ELSE IF s[1][2] >= k THEN << <<s[1][1], k>> >>
    ELSE IF Len(s) <= 4 THEN << s[1] >> \o BTake(Tail(s), k - s[1][2])
    ELSE BTakeSplit(FirstHalf(s), SecondHalf(s), BLen(FirstHalf(s)), k)

RECURSIVE BDrop(_, _)
\* head \o tail without its first k bytes, head being n bytes long
BDropSplit(head, tail, n, k) ==
    IF k >= n THEN BDrop(tail, k - n) ELSE BDrop(head, k) \o tail

BDrop(s, k) ==
    IF k <= 0 \/ s = <<>> THEN s
    ELSE IF s[1][2] > k THEN << <<s[1][1], s[1][2] - k>> >> \o Tail(s)
    ELSE IF Len(s) <= 4 THEN BDrop(Tail(s), k - s[1][2])
    ELSE BDropSplit(FirstHalf(s), SecondHalf(s), BLen(FirstHalf(s)), k)

\* the i-th byte (1-based) of a byte string of length >= i
BAt(s, i) == BTake(BDrop(s, i - 1), 1)[1][1]

\* p[i] = c for a 0-based index i, as Go writes it
BSet(s, i, c) == BCat(BCat(BTake(s, i), << <<c, 1>> >>), BDrop(s, i + 1))

(***************************************************************************)
(* schema: constants                                                       *)
(***************************************************************************)
typeField == B(<<"@", "t", "y", "p", "e">>)
casNS == B(<<"c", "a", "s", ":">>)
tab == B(<<" ">>)
Quote == B(<<"\"">>)
magic == BCat(BCat(BCat(BCat(B(<<"{", "\n">>), tab), Quote), typeField),
              B(<<"\"", ":">>))
maxSize == 16 * 1024 * 1024
MagicSize == BLen(magic)

\* An error value is the chain of its messages, outermost first; nil is <<>>.
ErrNil == <<>>
ErrNotSchema == <<"not a schema file">>
ErrTooLarge == <<"schema object is too large">>
ErrJSON == <<"json: invalid input">>
ErrUnsupported == <<"unsupported schema type">>
ErrRefParse == <<"ref: invalid encoding">>
WrapDecode(e) == <<"cannot decode schema object">> \o e

(***************************************************************************)
(* types.Ref.  A Ref is its digest, a number; 0 is the zero Ref.  Its      *)
(* canonical encoding is fixed-width lowercase hex, and in JSON it is the  *)
(* string of that encoding.                                                *)
(***************************************************************************)
NumRefs == 3
RefWidth == 2
ZeroRef == 0
Refs == 1..NumRefs
HexDigits == <<"0", "1", "2", "3", "4", "5", "6", "7",
               "8", "9", "a", "b", "c", "d", "e", "f">>
HexVal(c) == CHOOSE i \in 0..15 : HexDigits[i + 1] = c
IsHex(c) == \E i \in 0..15 : HexDigits[i + 1] = c

RefString(r) == B(<<HexDigits[(r \div 16) + 1], HexDigits[(r % 16) + 1]>>)

\* Ref.UnmarshalJSON on the content of a JSON string
ParseRef(s) ==
    IF BLen(s) = RefWidth /\ IsHex(BAt(s, 1)) /\ IsHex(BAt(s, 2))
    THEN [ok |-> TRUE, ref |-> 16 * HexVal(BAt(s, 1)) + HexVal(BAt(s, 2))]
    ELSE [ok |-> FALSE, ref |-> ZeroRef]

(***************************************************************************)
(* Objects.  A shape is a Go struct type implementing Object; an object is *)
(* a shape with the values of its fields.  TransformOp is the shape of     *)
(* schema/pipeline.go (Src, Op, Dst); Empty is a field-less struct a caller*)
(* registers                                                               *)
(* with RegisterName; SizedRef, SchemaRef and Pin appear only as registry  *)
(* entries.                                                                *)
(***************************************************************************)
\* an object: its shape and the values of its fields in declaration order
TransformOp(src, op, dst) == [shape |-> "TransformOp", val |-> <<src, op, dst>>]
EmptyObj == [shape |-> "Empty", val |-> <<>>]
NoObj == [shape |-> "nil", val |-> <<>>]

\* References listing Dst before Op
ReferencesSwapped(t) == <<t.val[1], t.val[3], t.val[2]>>

\* TransformOp.References
References(t) == <<t.val[1], t.val[2], t.val[3]>>

Shapes == {"SizedRef", "SchemaRef", "Pin", "TransformOp", "Empty"}

\* reflect.Type.Name()
ShapeNames ==
    [rt \in Shapes |->
        CASE rt = "SizedRef" -> B(<<"S", "i", "z", "e", "d", "R", "e", "f">>)
          [] rt = "SchemaRef" -> B(<<"S", "c", "h", "e", "m", "a", "R", "e", "f">>)
          [] rt = "Pin" -> B(<<"P", "i", "n">>)
          [] rt = "TransformOp" ->
                B(<<"T", "r", "a", "n", "s", "f", "o", "r", "m", "O", "p">>)
          [] rt = "Empty" -> B(<<"E", "m", "p", "t", "y">>)]
ShapeName(rt) == ShapeNames[rt]

\* the values Encode is applied to
Objects == {TransformOp(a, b, c) : a \in Refs, b \in Refs, c \in Refs}
           \cup {EmptyObj}

(***************************************************************************)
(* The registry: typesMap and typeToName as functions.                     *)
(***************************************************************************)
MapPut(m, k, v) == [x \in DOMAIN m \cup {k} |-> IF x = k THEN v ELSE m[x]]
EmptyMap == [x \in {} |-> 0]

registerCAS(reg, rt) ==
    LET name == BCat(casNS, ShapeName(rt))
    IN [typesMap |-> MapPut(reg.typesMap, name, rt),
        typeToName |-> MapPut(reg.typeToName, rt, name)]

RegisterNameOp(reg, name, rt) ==
    [typesMap |-> MapPut(reg.typesMap, name, rt),
     typeToName |-> MapPut(reg.typeToName, rt, name)]

\* the registry after the package's init functions
RECURSIVE RegisterAll(_, _)
RegisterAll(reg, rts) ==
    IF rts = <<>> THEN reg
    ELSE RegisterAll(registerCAS(reg, rts[1]), Tail(rts))

InitRegistry ==
    RegisterAll([typesMap |-> EmptyMap, typeToName |-> EmptyMap],
                <<"SizedRef", "SchemaRef", "Pin", "TransformOp">>)

TypeOf(o) ==
    IF o.shape \in DOMAIN typeToName
    THEN [name |-> typeToName[o.shape], err |-> ErrNil]
    ELSE [name |-> <<>>, err |-> ErrUnsupported]

\* the shape of the object NewType allocates (all fields zero)
NewType(typ) ==
    IF typ \in DOMAIN typesMap
    THEN [rt |-> typesMap[typ], err |-> ErrNil]
    ELSE [rt |-> "nil", err |-> ErrUnsupported]

(***************************************************************************)
(* encoding/json, as far as the schema package uses it: objects whose      *)
(* member values are strings.  No stream of the model holds a backslash, a *)
(* number, an array, a nested object or a key differing from a field name  *)
(* only in case, so escapes, those values and case folding are left out.   *)
(***************************************************************************)
WS == {" ", "\n", "\t", "\r"}

\* the next byte, "" at the end of the input
Peek(s) == IF s = <<>> THEN "" ELSE s[1][1]

\* the runs of s from the first run on whose byte is in bytes (inside = TRUE)
\* or is not in bytes (inside = FALSE)
From(s, bytes, inside) ==
    IF \E i \in 1..Len(s) : (s[i][1] \in bytes) = inside
    THEN SubSeq(s, CHOOSE i \in 1..Len(s) :
                       /\ (s[i][1] \in bytes) = inside
                       /\ \A j \in 1..(i - 1) : (s[j][1] \in bytes) # inside,
                Len(s))
    ELSE <<>>

SkipWS(s) == From(s, WS, FALSE)

StrFail == [ok |-> FALSE, val |-> <<>>, rest |-> <<>>]

\* the string that ends at the first quote of s, if no control character
\* or backslash comes before it
\* the string body s, end being s from its first quote, control character
\* or backslash on
StrEnd(s, end) ==
    IF Peek(end) # "\"" THEN StrFail
    ELSE [ok |-> TRUE,
          val |-> SubSeq(s, 1, Len(s) - Len(end)),
          rest |-> BDrop(end, 1)]

StrBody(s) == StrEnd(s, From(s, {"\"", "\n", "\t", "\r", "\\"}, TRUE))

ParseString(s) == IF Peek(s) = "\"" THEN StrBody(BDrop(s, 1)) ELSE StrFail

ObjFail == [ok |-> FALSE, members |-> <<>>]

\* after a value: a comma and the next member, or the closing brace and
\* nothing but white space
RECURSIVE ParseMembers(_, _)
AfterValue(s, acc) ==
    IF Peek(s) = "," THEN ParseMembers(SkipWS(BDrop(s, 1)), acc)
    ELSE IF Peek(s) = "}" /\ SkipWS(BDrop(s, 1)) = <<>>
         THEN [ok |-> TRUE, members |-> acc]
    ELSE ObjFail

MemberValue(key, v, acc) ==
    IF ~v.ok THEN ObjFail
    ELSE AfterValue(SkipWS(v.rest), Append(acc, <<key, v.val>>))

AfterKey(k, s, acc) ==
    IF ~k.ok \/ Peek(s) # ":" THEN ObjFail
    ELSE MemberValue(k.val, ParseString(SkipWS(BDrop(s, 1))), acc)

MemberKey(k, acc) == AfterKey(k, SkipWS(k.rest), acc)

\* the members from s on, a member being "key" : "value"
ParseMembers(s, acc) == MemberKey(ParseString(s), acc)

AfterBrace(s) ==
    IF Peek(s) = "}"
    THEN IF SkipWS(BDrop(s, 1)) = <<>>
         THEN [ok |-> TRUE, members |-> <<>>] ELSE ObjFail
    ELSE ParseMembers(s, <<>>)

ObjectAt(s) == IF Peek(s) # "{" THEN ObjFail ELSE AfterBrace(SkipWS(BDrop(s, 1)))

\* the members of the JSON object the bytes hold, or failure
ParseObject(bytes) == ObjectAt(SkipWS(bytes))

\* the value of the last member named key, or the zero string
RECURSIVE Member(_, _)
Member(ms, key) ==
    IF ms = <<>> THEN <<>>
    ELSE IF ms[Len(ms)][1] = key THEN ms[Len(ms)][2]
    ELSE Member(SubSeq(ms, 1, Len(ms) - 1), key)

JSONString(s) == BCat(BCat(Quote, s), Quote)

\* the struct tags of TransformOp
KeySrc == B(<<"s", "r", "c">>)
KeyOp == B(<<"o", "p">>)
KeyDst == B(<<"d", "s", "t">>)

\* the JSON members of an object, by the struct tags of its shape
Fields(o) ==
    CASE o.shape = "TransformOp" ->
            << <<KeySrc, JSONString(RefString(o.val[1]))>>,
               <<KeyOp, JSONString(RefString(o.val[2]))>>,
               <<KeyDst, JSONString(RefString(o.val[3]))>> >>
      [] o.shape = "Empty" -> <<>>

RECURSIVE IndentMembers(_)
IndentMembers(ms) ==
    LET m == BCat(BCat(BCat(B(<<"\n">>), tab), JSONString(ms[1][1])),
                  BCat(B(<<":", " ">>), ms[1][2]))
    IN IF Len(ms) = 1 THEN m
       ELSE BCat(BCat(m, B(<<",">>)), IndentMembers(Tail(ms)))

\* a JSON object indented by tab; an object without members stays "{}"
MarshalIndent(ms) ==
    IF ms = <<>> THEN B(<<"{", "}">>)
    ELSE BCat(BCat(B(<<"{">>), IndentMembers(ms)), B(<<"\n", "}">>))

\* json.Encoder.Encode with SetIndent("", tab): the value and a newline
EncoderEncode(o) == BCat(MarshalIndent(Fields(o)), B(<<"\n">>))

\* json.Unmarshal(data, obj) for an object of shape rt allocated by NewType
RECURSIVE FillTransformOp(_, _)
FillTransformOp(ms, o) ==
    IF ms = <<>> THEN [obj |-> o, err |-> ErrNil]
    ELSE LET key == ms[1][1]
             r == ParseRef(ms[1][2])
             i == CASE key = KeySrc -> 1
                    [] key = KeyOp -> 2
                    [] key = KeyDst -> 3
                    [] OTHER -> 0
         IN IF i = 0 THEN FillTransformOp(Tail(ms), o)
            ELSE IF ~r.ok THEN [obj |-> NoObj, err |-> ErrRefParse]
            ELSE FillTransformOp(Tail(ms),
                                 [o EXCEPT !.val = [o.val EXCEPT ![i] = r.ref]])

UnmarshalMembers(j, rt) ==
    IF ~j.ok THEN [obj |-> NoObj, err |-> ErrJSON]
    ELSE CASE rt = "TransformOp" ->
                 FillTransformOp(j.members, TransformOp(ZeroRef, ZeroRef, ZeroRef))
           [] rt = "Empty" -> [obj |-> EmptyObj, err |-> ErrNil]

Unmarshal(bytes, rt) == UnmarshalMembers(ParseObject(bytes), rt)

(***************************************************************************)
(* schema: Encode, IsSchema, checkSchema, Decode, DecodeType, PeekType.    *)
(* A reader is the byte string it has yet to deliver.                      *)
(***************************************************************************)
\* the bytes Encode writes for type name typ and encoder output body
EncodeAs(typ, body) ==
    LET buf == BCat(BCat(BCat(magic, B(<<" ", "\"">>)), typ), Quote)
        i == BLen(buf)
        p == BCat(buf, body)
    IN BSet(p, i, ",")

\* Encode writing the magic before it looks the type up
EncodeTypedEarly(t, o) ==
    IF t.err # ErrNil THEN [out |-> magic, err |-> t.err]
    ELSE [out |-> EncodeAs(t.name, EncoderEncode(o)), err |-> ErrNil]

EncodeTyped(t, o) ==
    IF t.err # ErrNil THEN [out |-> <<>>, err |-> t.err]
    ELSE [out |-> EncodeAs(t.name, EncoderEncode(o)), err |-> ErrNil]

Encode(o) == EncodeTyped(TypeOf(o), o)

\* IsSchema comparing one byte less and not checking the length
IsSchemaShort(p) == BTake(p, MagicSize - 1) = BTake(magic, MagicSize - 1)

IsSchema(p) ==
    IF BLen(p) < MagicSize THEN FALSE
    ELSE BTake(p, MagicSize) = magic

\* checkSchema passing the end-of-input error of io.ReadFull on
checkMagicEOF(m, rest) ==
    IF BLen(m) = 0 THEN [r |-> <<>>, err |-> <<"EOF">>]
    ELSE IF BLen(m) < MagicSize THEN [r |-> <<>>, err |-> <<"unexpected EOF">>]
    ELSE IF ~IsSchema(m) THEN [r |-> <<>>, err |-> ErrNotSchema]
    ELSE [r |-> BCat(m, rest), err |-> ErrNil]

\* lines 153-163, m being what io.ReadFull read and rest what r still holds
checkMagic(m, rest) ==
    IF BLen(m) < MagicSize THEN [r |-> <<>>, err |-> ErrNotSchema]
    ELSE IF ~IsSchema(m) THEN [r |-> <<>>, err |-> ErrNotSchema]
    ELSE [r |-> BCat(m, rest), err |-> ErrNil]

checkSchema(r) == checkMagic(BTake(r, MagicSize), BDrop(r, MagicSize))

\* lines 208-214: the header h parsed from the bytes read
decodeHeader(bytes, rest, h) ==
    IF ~h.ok THEN [typ |-> <<>>, data |-> <<>>, err |-> ErrJSON, rest |-> rest]
    ELSE [typ |-> Member(h.members, typeField), data |-> bytes,
          err |-> ErrNil, rest |-> rest]

\* decodeType without the test of the size cap
decodeLimitedNoCap(bytes, rest) == decodeHeader(bytes, rest, ParseObject(bytes))

\* lines 203-207: bytes is what ReadAll read through the LimitReader
decodeLimited(bytes, rest) ==
    IF BLen(bytes) = maxSize
    THEN [typ |-> <<>>, data |-> <<>>, err |-> ErrTooLarge, rest |-> rest]
    ELSE decodeHeader(bytes, rest, ParseObject(bytes))

\* decodeType reading one byte past the cap and accepting maxSize bytes
decodeTypeOneMore(r) ==
    IF BLen(r) > maxSize
    THEN [typ |-> <<>>, data |-> <<>>, err |-> ErrTooLarge,
          rest |-> BDrop(r, maxSize + 1)]
    ELSE decodeHeader(r, <<>>, ParseObject(r))

\* rest is what r has yet to deliver when decodeType returns
decodeType(r) == decodeLimited(BTake(r, maxSize), BDrop(r, maxSize))

decodeNew(dt, nt) ==
    IF nt.err # ErrNil THEN [obj |-> NoObj, err |-> nt.err]
    ELSE Unmarshal(dt.data, nt.rt)

decodeTyped(dt) ==
    IF dt.err # ErrNil THEN [obj |-> NoObj, err |-> dt.err]
    ELSE decodeNew(dt, NewType(dt.typ))

decode(r) == decodeTyped(decodeType(r))

WrapErr(d) ==
    IF d.err # ErrNil THEN [obj |-> NoObj, err |-> WrapDecode(d.err)] ELSE d

DecodeJSON(r) == WrapErr(decode(r))

DecodeChecked(cs) ==
    IF cs.err # ErrNil THEN [obj |-> NoObj, err |-> cs.err]
    ELSE DecodeJSON(cs.r)

Decode(r) == DecodeChecked(checkSchema(r))

DecodeTypeResult(dt) == [typ |-> dt.typ, err |-> dt.err]

DecodeTypeChecked(cs) ==
    IF cs.err # ErrNil THEN [typ |-> <<>>, err |-> cs.err]
    ELSE DecodeTypeResult(decodeType(cs.r))

DecodeType(r) == DecodeTypeChecked(checkSchema(r))

\* PeekType returning the consumed reader, the bytes read not replayed
PeekResultNoReplay(dt) ==
    [r |-> dt.rest, nil |-> FALSE, typ |-> dt.typ, err |-> dt.err]

\* line 238: the reader replays data and goes on with what r still holds
PeekResult(dt) ==
    [r |-> BCat(dt.data, dt.rest), nil |-> FALSE, typ |-> dt.typ, err |-> dt.err]

\* nil: the reader returned is nil
PeekChecked(cs) ==
    IF cs.err # ErrNil
    THEN [r |-> <<>>, nil |-> TRUE, typ |-> <<>>, err |-> cs.err]
    ELSE PeekResult(decodeType(cs.r))

PeekType(r) == PeekChecked(checkSchema(r))

(***************************************************************************)
(* storage/local: the staging handle linuxTmpFile and the blob directory.  *)
(* A handle is used by one goroutine: a call on it starts when no Commit   *)
(* on it is in progress (pc[h] = "idle").  Commit is a sequence of steps   *)
(* that interleave with the steps of other handles; each system call of a *)
(* step succeeds or fails as the environment decides.                      *)
(***************************************************************************)
NumHandles == 2
\* the bytes staged in all the handles together
MaxLen == 2
\* the Commit calls that a failing system call ends
MaxFaults == 1
NumBlobRefs == 2
Handles == 1..NumHandles
\* a Write appends one byte: the contents staged differ by their length
Bytes == {"a"}
BlobRefs == 1..NumBlobRefs

\* a link that does not fail on a name already taken
linkFileNoExist(dir, name, file, ioerr) ==
    IF ioerr THEN [dir |-> dir, err |-> "EIO"]
    ELSE [dir |-> dir \cup {<<name, file>>}, err |-> "nil"]

\* unix.Linkat into the blob directory and the EEXIST mapping of linkFile:
\* fails when the name is taken, else adds the link
linkFile(dir, name, file, ioerr) ==
    IF ioerr THEN [dir |-> dir, err |-> "EIO"]
    ELSE IF \E e \in dir : e[1] = name THEN [dir |-> dir, err |-> "ErrExist"]
    ELSE [dir |-> dir \cup {<<name, file>>}, err |-> "nil"]

StoreInit ==
    /\ f = [h \in Handles |-> "open"]
    /\ fd = [h \in Handles |-> "open"]
    /\ data = [h \in Handles |-> <<>>]
    /\ mode = [h \in Handles |-> "rw"]
    /\ pc = [h \in Handles |-> "idle"]
    /\ cref = [h \in Handles |-> ZeroRef]
    /\ ret = [h \in Handles |-> "none"]
    /\ last = <<"none", "none">>
    /\ blobDir = {}
    /\ memo = {}
    /\ pub = EmptyMap

\* what Commit returns when a system call or an index update failed
IOFailures == {"save ref", "fchmod", "linkat: EIO", "index", "close"}
Staged ==
    LET sum[n \in 0..NumHandles] ==
            IF n = 0 THEN 0 ELSE sum[n - 1] + Len(data[n])
    IN sum[NumHandles]
\* the outcomes of a system call: it fails (TRUE) or not
Faults ==
    IF Cardinality({h \in Handles : ret[h] \in IOFailures}) < MaxFaults
    THEN BOOLEAN ELSE {FALSE}

\* Commit returning without the deferred tmp.Close()
ReturnNoClose(h, e) ==
    /\ ret' = [ret EXCEPT ![h] = e]
    /\ pc' = [pc EXCEPT ![h] = "idle"]
    /\ UNCHANGED fd

\* Commit returns e: the deferred tmp.Close() runs
Return(h, e) ==
    /\ ret' = [ret EXCEPT ![h] = e]
    /\ fd' = [fd EXCEPT ![h] = "closed"]
    /\ pc' = [pc EXCEPT ![h] = "idle"]

\* the closed check left out: a closed handle is treated as an open one
ClosedCheckSkipped(h) == "ok"

\* lines 96, 103, 119 and 126: if f.f == nil { return ... os.ErrClosed }
ClosedCheck(h) == IF f[h] = "nil" THEN "ErrClosed" ELSE "ok"

Write(h, b) ==
    /\ pc[h] = "idle"
    /\ IF ClosedCheck(h) = "ErrClosed"
       THEN UNCHANGED data
       ELSE /\ Staged < MaxLen
            /\ data' = [data EXCEPT ![h] = Append(@, b)]
    /\ UNCHANGED <<f, fd, mode, pc, cref, ret, blobDir, memo, pub>>

\* Read: the closed check, then f.f.Read(p)
Read(h) ==
    /\ pc[h] = "idle"
    /\ UNCHANGED <<f, fd, data, mode, pc, cref, ret, blobDir, memo, pub>>

\* SetWriteDeadline: the closed check, then f.f.SetWriteDeadline(t)
SetWriteDeadline(h) ==
    /\ pc[h] = "idle"
    /\ UNCHANGED <<f, fd, data, mode, pc, cref, ret, blobDir, memo, pub>>

\* Close linking the staged file under the name of the zero ref
CloseLinked(h) ==
    /\ pc[h] = "idle"
    /\ IF f[h] = "nil"
       THEN UNCHANGED <<f, fd, blobDir>>
       ELSE /\ fd' = [fd EXCEPT ![h] = "closed"]
            /\ f' = [f EXCEPT ![h] = "nil"]
            /\ blobDir' = blobDir \cup {<<RefString(ZeroRef), h>>}
    /\ UNCHANGED <<data, mode, pc, cref, ret, memo, pub>>

Close(h) ==
    /\ pc[h] = "idle"
    /\ IF f[h] = "nil"
       THEN UNCHANGED <<f, fd>>
       ELSE /\ fd' = [fd EXCEPT ![h] = "closed"]
            /\ f' = [f EXCEPT ![h] = "nil"]
    /\ UNCHANGED <<data, mode, pc, cref, ret, blobDir, memo, pub>>

\* Commit leaving f.f set
CommitBeginKeepOpen(h, ref) ==
    /\ pc[h] = "idle"
    /\ IF ClosedCheck(h) = "ErrClosed"
       THEN UNCHANGED <<pc, cref>>
       ELSE /\ pc' = [pc EXCEPT ![h] = "save"]
            /\ cref' = [cref EXCEPT ![h] = ref]
    /\ UNCHANGED <<f, fd, data, mode, ret, blobDir, memo, pub>>

\* Commit, lines 126-133: the closed check, tmp := f.f, f.f = nil
CommitBegin(h, ref) ==
    /\ pc[h] = "idle"
    /\ IF ClosedCheck(h) = "ErrClosed"
       THEN UNCHANGED <<f, pc, cref>>
       ELSE /\ f' = [f EXCEPT ![h] = "nil"]
            /\ pc' = [pc EXCEPT ![h] = "save"]
            /\ cref' = [cref EXCEPT ![h] = ref]
    /\ UNCHANGED <<fd, data, mode, ret, blobDir, memo, pub>>

\* Commit logging the error of SaveRefFile and going on
CommitSaveLogged(h, ioerr) ==
    /\ pc[h] = "save"
    /\ memo' = IF ioerr THEN memo ELSE memo \cup {<<h, cref[h]>>}
    /\ pc' = [pc EXCEPT ![h] = "chmod"]
    /\ UNCHANGED <<ret, fd>>
    /\ UNCHANGED <<f, data, mode, cref, blobDir, pub>>

\* SaveRefFile(ctx, tmp, nil, ref)
CommitSave(h, ioerr) ==
    /\ pc[h] = "save"
    /\ IF ioerr
       THEN /\ Return(h, "save ref")
            /\ UNCHANGED memo
       ELSE /\ memo' = memo \cup {<<h, cref[h]>>}
            /\ pc' = [pc EXCEPT ![h] = "chmod"]
            /\ UNCHANGED <<ret, fd>>
    /\ UNCHANGED <<f, data, mode, cref, blobDir, pub>>

\* Commit going on to the link when Fchmod failed
CommitChmodIgnored(h, ioerr) ==
    /\ pc[h] = "chmod"
    /\ mode' = [mode EXCEPT ![h] = IF ioerr THEN @ ELSE "ro"]
    /\ pc' = [pc EXCEPT ![h] = "link"]
    /\ UNCHANGED <<ret, fd>>
    /\ UNCHANGED <<f, data, cref, blobDir, memo, pub>>

\* unix.Fchmod(fd, roPerm)
CommitChmod(h, ioerr) ==
    /\ pc[h] = "chmod"
    /\ IF ioerr
       THEN /\ Return(h, "fchmod")
            /\ UNCHANGED mode
       ELSE /\ mode' = [mode EXCEPT ![h] = "ro"]
            /\ pc' = [pc EXCEPT ![h] = "link"]
            /\ UNCHANGED <<ret, fd>>
    /\ UNCHANGED <<f, data, cref, blobDir, memo, pub>>

\* linkFile(f.s.blobDir, ref.String(), tmp) and the os.IsExist test
CommitLink(h, ioerr) ==
    LET name == RefString(cref[h])
        l == linkFile(blobDir, name, h, ioerr)
    IN /\ pc[h] = "link"
       /\ blobDir' = l.dir
       /\ pub' = IF l.err = "nil" /\ name \notin DOMAIN pub
                 THEN MapPut(pub, name, data[h]) ELSE pub
       /\ IF l.err = "ErrExist" THEN Return(h, "nil")
          ELSE IF l.err # "nil" THEN Return(h, "linkat: " \o l.err)
          ELSE /\ pc' = [pc EXCEPT ![h] = "index"]
               /\ UNCHANGED <<ret, fd>>
       /\ UNCHANGED <<f, data, mode, cref, memo>>

\* f.s.addNotIndexed(tmp, ref)
CommitIndex(h, ioerr) ==
    /\ pc[h] = "index"
    /\ IF ioerr
       THEN Return(h, "index")
       ELSE /\ pc' = [pc EXCEPT ![h] = "close"]
            /\ UNCHANGED <<ret, fd>>
    /\ UNCHANGED <<f, data, mode, cref, blobDir, memo, pub>>

\* return tmp.Close()
CommitClose(h, ioerr) ==
    /\ pc[h] = "close"
    /\ Return(h, IF ioerr THEN "close" ELSE "nil")
    /\ UNCHANGED <<f, data, mode, cref, blobDir, memo, pub>>

(***************************************************************************)
(* storage/local: Storage.tmpFile, called concurrently by the writers.     *)
(***************************************************************************)
NumWriters == 2
MaxCalls == 2
Writers == 1..NumWriters
OpenResults == {"nil", "EISDIR", "EOPNOTSUPP", "EIO"}

TmpInit ==
    /\ noTmpFile = 0
    /\ tpc = [w \in Writers |-> "idle"]
    /\ tcalls = [w \in Writers |-> 0]
    /\ tafter = [w \in Writers |-> {}]
    /\ tanon = [w \in Writers |-> FALSE]
    /\ tres = [w \in Writers |-> "none"]
    /\ tfell = {}

\* line 60: atomic.LoadInt32(&noTmpFile)
TmpLoad(w) ==
    /\ tpc[w] = "idle"
    /\ tcalls[w] < MaxCalls
    /\ tcalls' = [tcalls EXCEPT ![w] = @ + 1]
    /\ tafter' = [tafter EXCEPT ![w] = tfell]
    /\ tanon' = [tanon EXCEPT ![w] = FALSE]
    /\ tres' = [tres EXCEPT ![w] = "none"]
    /\ tpc' = [tpc EXCEPT ![w] = IF noTmpFile # 0 THEN "gen" ELSE "open"]
    /\ UNCHANGED <<noTmpFile, tfell>>

\* lines 63-83: unix.Open(s.dir, O_TMPFILE...) and the switch on its error
TmpOpen(w, err) ==
    /\ tpc[w] = "open"
    /\ tanon' = [tanon EXCEPT ![w] = TRUE]
    /\ tpc' = [tpc EXCEPT ![w] = CASE err = "EISDIR" -> "store"
                                    [] err = "EOPNOTSUPP" -> "gen"
                                    [] OTHER -> "idle"]
    /\ tres' = [tres EXCEPT ![w] = CASE err = "nil" -> "anonymous"
                                      [] err = "EIO" -> "error"
                                      [] OTHER -> "none"]
    /\ tfell' = IF err = "EOPNOTSUPP" THEN tfell \cup {err} ELSE tfell
    /\ UNCHANGED <<noTmpFile, tcalls, tafter>>

\* the EISDIR case falling through without setting the flag
TmpStoreSkipped(w) ==
    /\ tpc[w] = "store"
    /\ tpc' = [tpc EXCEPT ![w] = "gen"]
    /\ tfell' = tfell \cup {"EISDIR"}
    /\ UNCHANGED <<noTmpFile, tcalls, tafter, tanon, tres>>

\* line 73: atomic.StoreInt32(&noTmpFile, 1), then fallthrough
TmpStore(w) ==
    /\ tpc[w] = "store"
    /\ noTmpFile' = 1
    /\ tpc' = [tpc EXCEPT ![w] = "gen"]
    /\ tfell' = tfell \cup {"EISDIR"}
    /\ UNCHANGED <<tcalls, tafter, tanon, tres>>

\* lines 61 and 76: return s.tmpFileGen()
TmpGen(w) ==
    /\ tpc[w] = "gen"
    /\ tpc' = [tpc EXCEPT ![w] = "idle"]
    /\ tres' = [tres EXCEPT ![w] = "fallback"]
    /\ UNCHANGED <<noTmpFile, tcalls, tafter, tanon, tfell>>

(***************************************************************************)
(* HashWith(ctx, path, info, force).  StatFile and SaveRefFile are calls   *)
(* into the memoization index, which return what the index holds or an     *)
(* error; the hash of types.NewRef().Hash() is a function of the bytes     *)
(* that never gives the zero Ref.                                          *)
(***************************************************************************)
MaxFileLen == 2
FileBytes == {"a", "b"}
Files == UNION {[1..n -> FileBytes] : n \in 0..MaxFileLen}

ByteCode(b) == IF b = "a" THEN 1 ELSE 2
RECURSIVE HashFrom(_, _)
HashFrom(h, c) ==
    IF c = <<>> THEN h ELSE HashFrom((h * 3 + ByteCode(c[1])) % 255, Tail(c))
\* io.Copy(h, f) and NewRef().WithHash(h)
HashOf(c) == 1 + HashFrom(0, c)

SizedRef(ref, size) == [ref |-> ref, size |-> size]
ZeroSized == SizedRef(ZeroRef, 0)
NoStat == [err |-> "none", sr |-> ZeroSized]
\* StatFile: an error, an entry with the zero Ref, or an entry of the index
StatResults ==
    {[err |-> "ENODATA", sr |-> ZeroSized], [err |-> "nil", sr |-> ZeroSized]}
    \cup {[err |-> "nil", sr |-> SizedRef(r, n)] : r \in Refs, n \in 0..MaxFileLen}
NoRet == [sr |-> ZeroSized, err |-> "none"]

HashInit ==
    /\ hpc = "idle"
    /\ hforce = FALSE
    /\ hfile = <<>>
    /\ hfd = "none"
    /\ hstat = NoStat
    /\ hread = 0
    /\ hsaved = "none"
    /\ hret = NoRet

\* HashWith returns: the deferred f.Close() runs
HashReturn(sr, e) ==
    /\ hret' = [sr |-> sr, err |-> e]
    /\ hfd' = "closed"
    /\ hpc' = "done"

\* lines 253-259: os.Open(path) and the test of force
HashWith(force, content, ioerr) ==
    /\ hpc = "idle"
    /\ hforce' = force
    /\ hfile' = content
    /\ IF ioerr
       THEN /\ hret' = [sr |-> ZeroSized, err |-> "open"]
            /\ hpc' = "done"
            /\ UNCHANGED hfd
       ELSE /\ hfd' = "open"
            /\ hpc' = IF force THEN "copy" ELSE "stat"
            /\ UNCHANGED hret
    /\ UNCHANGED <<hstat, hread, hsaved>>

\* lines 260-262: StatFile(ctx, f) and the use of its result
HashStat(st) ==
    /\ hpc = "stat"
    /\ hstat' = st
    /\ IF st.err = "nil" /\ st.sr.ref # ZeroRef
       THEN HashReturn(st.sr, "nil")
       ELSE /\ hpc' = "copy"
            /\ UNCHANGED <<hret, hfd>>
    /\ UNCHANGED <<hforce, hfile, hread, hsaved>>

\* lines 265-269: io.Copy(h, f); a failing read stops after n bytes
HashCopy(ioerr, n) ==
    /\ hpc = "copy"
    /\ IF ioerr
       THEN /\ n <= Len(hfile)
            /\ hread' = n
            /\ HashReturn(ZeroSized, "read")
       ELSE /\ hread' = Len(hfile)
            /\ hpc' = "save"
            /\ UNCHANGED <<hret, hfd>>
    /\ UNCHANGED <<hforce, hfile, hstat, hsaved>>

\* HashWith returning the error of SaveRefFile
HashSaveFatal(ioerr) ==
    /\ hpc = "save"
    /\ hsaved' = IF ioerr THEN "failed" ELSE "saved"
    /\ IF ioerr THEN HashReturn(ZeroSized, "save")
       ELSE HashReturn(SizedRef(HashOf(hfile), hread), "nil")
    /\ UNCHANGED <<hforce, hfile, hstat, hread>>

\* lines 270-274: SaveRefFile, whose error is logged, and the return
HashSave(ioerr) ==
    /\ hpc = "save"
    /\ hsaved' = IF ioerr THEN "failed" ELSE "saved"
    /\ HashReturn(SizedRef(HashOf(hfile), hread), "nil")
    /\ UNCHANGED <<hforce, hfile, hstat, hread>>

(***************************************************************************)
(* schema: the calls made on the registry and the codec.  Registration     *)
(* happens while the process initialises, before the first Encode or       *)
(* decoder call; the package's own init functions have run in Init.        *)
(***************************************************************************)
MaxRegs == 1
\* the shapes registered after package init: those whose fields are modelled
RegShapes == {"TransformOp", "Empty"}

Str(chars) == B(chars)
NameX == Str(<<"x">>)
NameTransformOp == BCat(casNS, ShapeName("TransformOp"))
NamePin == BCat(casNS, ShapeName("Pin"))
RegNames == {NameX, NameTransformOp}

Sample == EncodeAs(NameTransformOp, EncoderEncode(TransformOp(1, 2, 3)))
Member1(k, v) == << <<Str(k), JSONString(Str(v))>> >>

\* {"@type":"cas:Pin","id":"x"}
CompactPin ==
    BCat(BCat(Str(<<"{">>), JSONString(typeField)),
         BCat(BCat(Str(<<":">>), JSONString(NamePin)),
              Str(<<",", "\"", "i", "d", "\"", ":", "\"", "x", "\"", "}">>)))

\* the paddings that bring a stream of length n to the size cap and around
PadsFor(n) == {1, maxSize - n - 1, maxSize - n, maxSize - n + 1}

\* where Sample is cut: around the magic, in the type name, in a member,
\* before the closing brace and not at all
CutLens == (0..(MagicSize + 2)) \cup {20, 35, 50}
           \cup {BLen(Sample) - k : k \in 0..3}

Streams ==
    {BTake(Sample, k) : k \in CutLens}
    \cup {BTake(CompactPin, k) : k \in {MagicSize - 1, MagicSize, BLen(CompactPin)}}
    \cup {BCat(Sample, Rep(" ", n)) : n \in PadsFor(BLen(Sample))}
    \cup {BCat(magic, Rep("x", n)) : n \in PadsFor(MagicSize)}
    \cup {BCat(Rep(" ", 1), Sample)}
    \cup {EncodeAs(Str(<<"n", "o", "p", "e">>), EncoderEncode(TransformOp(1, 2, 3))),
          EncodeAs(NameX, EncoderEncode(EmptyObj)),
          EncodeAs(NameX, EncoderEncode(TransformOp(3, 3, 1))),
          EncodeAs(NameTransformOp,
                   BCat(MarshalIndent(Member1(<<"s", "r", "c">>, <<"z", "z">>)),
                        Str(<<"\n">>))),
          EncodeAs(NameTransformOp,
                   BCat(MarshalIndent(Member1(<<"o", "p">>, <<"0", "2">>)),
                        Str(<<"\n">>))),
          EncodeAs(NameTransformOp,
                   BCat(MarshalIndent(Member1(<<"@", "t", "y", "p", "e">>, <<"x">>)),
                        Str(<<"\n">>)))}

\* perr: the error of the PeekType call whose reader was decoded
NoRes == [op |-> "none", err |-> ErrNil, perr |-> ErrNil, obj |-> NoObj,
          typ |-> <<>>, r |-> <<>>, nil |-> TRUE, ok |-> FALSE]

SchemaInit(streams) ==
    /\ typesMap = InitRegistry.typesMap
    /\ typeToName = InitRegistry.typeToName
    /\ nregs = 0
    /\ stream \in streams
    /\ wobj = NoObj
    /\ wbuf = <<>>
    /\ werr = ErrNil
    /\ res = NoRes

\* the record of a call's results
Decoded(r0, op, d) == [r0 EXCEPT !.op = op, !.err = d.err, !.obj = d.obj]
Typed(d) == [NoRes EXCEPT !.op = "DecodeType", !.err = d.err, !.typ = d.typ]
Peeked(d) == [NoRes EXCEPT !.op = "PeekType", !.err = d.err, !.perr = d.err,
                           !.typ = d.typ, !.r = d.r, !.nil = d.nil]

Registering == nregs < MaxRegs /\ wobj = NoObj /\ res = NoRes
Registry == [typesMap |-> typesMap, typeToName |-> typeToName]

Registered(reg) == typesMap' = reg.typesMap /\ typeToName' = reg.typeToName

DoRegisterCAS(rt) ==
    /\ Registering
    /\ Registered(registerCAS(Registry, rt))
    /\ nregs' = nregs + 1
    /\ UNCHANGED <<stream, wobj, wbuf, werr, res>>

RegisterName(name, rt) ==
    /\ Registering
    /\ Registered(RegisterNameOp(Registry, name, rt))
    /\ nregs' = nregs + 1
    /\ UNCHANGED <<stream, wobj, wbuf, werr, res>>

\* Encode(w, o) on an empty buffer w: what is written becomes the stream
\* the decoders read; an Encode that fails on the type lookup leaves the
\* stream as it is.  A behaviour has one input, a stream of Init or what
\* one Encode call wrote, and applies one decoder to it.
Written(e) ==
    /\ werr' = e.err
    /\ wbuf' = e.out
    /\ stream' = IF e.err = ErrNil THEN e.out ELSE stream

DoEncode(o) ==
    /\ stream = <<>> \/ o.shape \notin DOMAIN typeToName
    /\ wobj = NoObj
    /\ res = NoRes
    /\ wobj' = o
    /\ Written(Encode(o))
    /\ UNCHANGED <<typesMap, typeToName, nregs, res>>

DoIsSchema ==
    /\ res = NoRes
    /\ res' = [NoRes EXCEPT !.op = "IsSchema", !.ok = IsSchema(stream)]
    /\ UNCHANGED <<typesMap, typeToName, nregs, stream, wobj, wbuf, werr>>

DoDecode ==
    /\ res = NoRes
    /\ res' = Decoded(NoRes, "Decode", Decode(stream))
    /\ UNCHANGED <<typesMap, typeToName, nregs, stream, wobj, wbuf, werr>>

DoDecodeType ==
    /\ res = NoRes
    /\ res' = Typed(DecodeType(stream))
    /\ UNCHANGED <<typesMap, typeToName, nregs, stream, wobj, wbuf, werr>>

DoPeekType ==
    /\ res = NoRes
    /\ res' = Peeked(PeekType(stream))
    /\ UNCHANGED <<typesMap, typeToName, nregs, stream, wobj, wbuf, werr>>

\* Decode on the reader the last PeekType call returned
DoDecodePeeked ==
    /\ res.op = "PeekType"
    /\ ~res.nil
    /\ res' = Decoded(res, "PeekType+Decode", Decode(res.r))
    /\ UNCHANGED <<typesMap, typeToName, nregs, stream, wobj, wbuf, werr>>

(***************************************************************************)
(* The specifications.                                                     *)
(***************************************************************************)
Init == StoreInit /\ TmpInit /\ SchemaInit({<<>>}) /\ HashInit

\* The handles run the same code and the refs are interchangeable: the
\* handles are numbered in the order of their Commit calls and the refs in
\* the order of their first use.
InOrder(h) == f[h] = "nil" \/ \A g \in Handles : g < h => cref[g] # ZeroRef
NextRefs == {r \in BlobRefs : \A q \in BlobRefs : q < r => \E g \in Handles : cref[g] = q}

Next ==
    \/ \E h \in Handles, b \in Bytes : Write(h, b) /\ UNCHANGED <<tmpVars, schemaVars, hashVars, last>>
    \/ \E h \in Handles : Close(h) /\ UNCHANGED <<tmpVars, schemaVars, hashVars, last>>
    \/ \E h \in Handles, r \in NextRefs :
          InOrder(h) /\ CommitBegin(h, r) /\ UNCHANGED <<tmpVars, schemaVars, hashVars, last>>
    \/ \E h \in Handles, e \in Faults :
          CommitSave(h, e) /\ UNCHANGED <<tmpVars, schemaVars, hashVars, last>>
    \/ \E h \in Handles, e \in Faults :
          CommitChmod(h, e) /\ UNCHANGED <<tmpVars, schemaVars, hashVars, last>>
    \/ \E h \in Handles, e \in Faults :
          CommitLink(h, e) /\ UNCHANGED <<tmpVars, schemaVars, hashVars, last>>
    \/ \E h \in Handles, e \in Faults :
          CommitIndex(h, e) /\ UNCHANGED <<tmpVars, schemaVars, hashVars, last>>
    \/ \E h \in Handles, e \in Faults :
          CommitClose(h, e) /\ UNCHANGED <<tmpVars, schemaVars, hashVars, last>>

Spec == Init /\ [][Next]_vars

TmpNext ==
    \/ \E w \in Writers : TmpLoad(w) /\ UNCHANGED <<storeVars, schemaVars, hashVars, last>>
    \/ \E w \in Writers, e \in OpenResults :
          TmpOpen(w, e) /\ UNCHANGED <<storeVars, schemaVars, hashVars, last>>
    \/ \E w \in Writers : TmpStore(w) /\ UNCHANGED <<storeVars, schemaVars, hashVars, last>>
    \/ \E w \in Writers : TmpGen(w) /\ UNCHANGED <<storeVars, schemaVars, hashVars, last>>

SpecTmp == Init /\ [][TmpNext]_vars

InitSchema == StoreInit /\ TmpInit /\ SchemaInit(Streams) /\ HashInit

SchemaNext ==
    \/ \E rt \in RegShapes : DoRegisterCAS(rt) /\ UNCHANGED <<storeVars, tmpVars, hashVars, last>>
    \/ \E n \in RegNames, rt \in RegShapes :
          RegisterName(n, rt) /\ UNCHANGED <<storeVars, tmpVars, hashVars, last>>
    \/ \E o \in Objects : DoEncode(o) /\ UNCHANGED <<storeVars, tmpVars, hashVars, last>>
    \/ DoIsSchema /\ UNCHANGED <<storeVars, tmpVars, hashVars, last>>
    \/ DoDecode /\ UNCHANGED <<storeVars, tmpVars, hashVars, last>>
    \/ DoDecodeType /\ UNCHANGED <<storeVars, tmpVars, hashVars, last>>
    \/ DoPeekType /\ UNCHANGED <<storeVars, tmpVars, hashVars, last>>
    \/ DoDecodePeeked /\ UNCHANGED <<storeVars, tmpVars, hashVars, last>>

SpecSchema == InitSchema /\ [][SchemaNext]_vars

HashNext ==
    \/ \E force \in BOOLEAN, content \in Files, e \in BOOLEAN :
          HashWith(force, content, e) /\ UNCHANGED <<storeVars, tmpVars, schemaVars, last>>
    \/ \E st \in StatResults :
          HashStat(st) /\ UNCHANGED <<storeVars, tmpVars, schemaVars, last>>
    \/ \E e \in BOOLEAN, n \in 0..MaxFileLen :
          HashCopy(e, n) /\ UNCHANGED <<storeVars, tmpVars, schemaVars, last>>
    \/ \E e \in BOOLEAN : HashSave(e) /\ UNCHANGED <<storeVars, tmpVars, schemaVars, last>>

SpecHash == Init /\ [][HashNext]_vars

\* One handle used by one goroutine: a call starts when the call before it
\* has returned, and last records each call with what it returned.
TheHandle == CHOOSE h \in Handles : \A g \in Handles : h <= g
Called(call, result) == last' = <<call, result>>
\* a step of Commit: when it is the return, last records what it returned
Stepped(h) == last' = IF pc'[h] = "idle" THEN <<"Commit", ret'[h]>> ELSE last
Others == <<tmpVars, schemaVars, hashVars>>

HandleNext ==
    \/ Read(TheHandle) /\ Called("Read", ClosedCheck(TheHandle)) /\ UNCHANGED Others
    \/ \E b \in Bytes :
          Write(TheHandle, b) /\ Called("Write", ClosedCheck(TheHandle))
          /\ UNCHANGED Others
    \/ SetWriteDeadline(TheHandle)
          /\ Called("SetWriteDeadline", ClosedCheck(TheHandle)) /\ UNCHANGED Others
    \/ Close(TheHandle) /\ Called("Close", "nil") /\ UNCHANGED Others
    \/ \E r \in NextRefs :
          /\ CommitBegin(TheHandle, r)
          /\ IF ClosedCheck(TheHandle) = "ErrClosed"
             THEN Called("Commit", "ErrClosed")
             ELSE UNCHANGED last
          /\ UNCHANGED Others
    \/ \E e \in Faults : CommitSave(TheHandle, e) /\ Stepped(TheHandle) /\ UNCHANGED Others
    \/ \E e \in Faults : CommitChmod(TheHandle, e) /\ Stepped(TheHandle) /\ UNCHANGED Others
    \/ \E e \in Faults : CommitLink(TheHandle, e) /\ Stepped(TheHandle) /\ UNCHANGED Others
    \/ \E e \in Faults : CommitIndex(TheHandle, e) /\ Stepped(TheHandle) /\ UNCHANGED Others
    \/ \E e \in Faults : CommitClose(TheHandle, e) /\ Stepped(TheHandle) /\ UNCHANGED Others

SpecHandle == Init /\ [][HandleNext]_vars

(***************************************************************************)
(* Properties of the storage engine.                                       *)
(***************************************************************************)
Returned(h) == pc[h] = "idle" /\ ret[h] # "none"
Entries(name) == {e \in blobDir : e[1] = name}

\* C1: when two handles have both committed the same ref and no system call
\* of either commit failed, both commits returned nil (the link's "already
\* exists" included) and the blob directory holds exactly one entry named
\* ref.String(), whatever the interleaving of their steps was.
C1_CommitTwiceOneBlob ==
    \A h1 \in Handles, h2 \in Handles :
        (/\ h1 # h2
         /\ Returned(h1) /\ Returned(h2)
         /\ cref[h1] = cref[h2]
         /\ ret[h1] \notin IOFailures /\ ret[h2] \notin IOFailures)
        => /\ ret[h1] = "nil" /\ ret[h2] = "nil"
           /\ Cardinality(Entries(RefString(cref[h1]))) = 1

C1_Witness ==
    \E h1 \in Handles, h2 \in Handles :
        /\ h1 # h2
        /\ Returned(h1) /\ Returned(h2)
        /\ cref[h1] = cref[h2]
        /\ data[h1] = data[h2] /\ data[h1] # <<>>
        /\ ret[h1] = "nil" /\ ret[h2] = "nil"
        /\ <<RefString(cref[h1]), h1>> \in blobDir

\* C2: every name of the blob directory was put there by the link step of a
\* Commit of that ref, is the only entry of its name, belongs to a handle
\* that refuses Write (f.f = nil), and still holds the content it had when
\* the name was first linked: no later Commit of the ref replaced it.
C2_PublishedIsFinal ==
    \A e \in blobDir :
        /\ e[1] = RefString(cref[e[2]])
        /\ pc[e[2]] \in {"index", "close", "idle"}
        /\ f[e[2]] = "nil"
        /\ Entries(e[1]) = {e}
        /\ e[1] \in DOMAIN pub
        /\ data[e[2]] = pub[e[1]]

C2_Witness ==
    \E e \in blobDir, h \in Handles :
        /\ ClosedCheck(e[2]) = "ErrClosed"
        /\ h # e[2]
        /\ cref[h] = cref[e[2]]
        /\ ret[h] = "nil"
        /\ data[h] # data[e[2]]

\* C3: when Commit returned an error of the read-only marking or of a later
\* step, the blob directory holds no entry this call linked under
\* ref.String().
C3_FailedCommitPublishesNothing ==
    \A h \in Handles :
        (Returned(h) /\ ret[h] \in {"fchmod", "linkat: EIO", "index", "close"})
        => <<RefString(cref[h]), h>> \notin blobDir

(***************************************************************************)
(* Properties of Storage.tmpFile.                                          *)
(***************************************************************************)
\* C4: a tmpFile call that started after some call fell back on an
\* unsupported condition (EISDIR or EOPNOTSUPP) does not try the anonymous
\* open and uses the fallback.
C4_StickyAfterAnyFallback ==
    \A w \in Writers :
        tafter[w] # {} => ~tanon[w] /\ tres[w] \in {"none", "fallback"}

\* C4, amended: the flag is set exactly when some call fell back on EISDIR,
\* and a tmpFile call that started after such a fallback does not try the
\* anonymous open and uses the fallback.
C4_StickyAfterEISDIR ==
    /\ (noTmpFile = 1) = ("EISDIR" \in tfell)
    /\ \A w \in Writers :
           "EISDIR" \in tafter[w] => ~tanon[w] /\ tres[w] \in {"none", "fallback"}

C4_Witness ==
    \E w \in Writers : "EISDIR" \in tafter[w] /\ tres[w] = "fallback"

(***************************************************************************)
(* Properties of the schema package.                                       *)
(***************************************************************************)
\* TypeOf(NewType(n)) = n for every name, NewType(TypeOf(s)) has shape s for
\* every shape
RegistryAgrees ==
    /\ \A n \in DOMAIN typesMap :
           TypeOf([shape |-> NewType(n).rt, val |-> <<>>]) = [name |-> n, err |-> ErrNil]
    /\ \A rt \in DOMAIN typeToName :
           NewType(TypeOf([shape |-> rt, val |-> <<>>]).name) = [rt |-> rt, err |-> ErrNil]

Encoded == wobj # NoObj /\ werr = ErrNil

\* C5: for an object of a registered shape (the registry's two maps
\* agreeing), Encode succeeds and Decode of the bytes written returns, with
\* no error, an object deep-equal to it.
C5_RoundTrip ==
    (/\ wobj # NoObj
     /\ wobj.shape \in DOMAIN typeToName
     /\ RegistryAgrees
     /\ res.op = "Decode")
    => /\ werr = ErrNil
       /\ res.err = ErrNil
       /\ res.obj = wobj

\* the first MagicSize bytes are there and are those of the magic template
MagicPrefix(b) ==
    /\ BLen(b) >= MagicSize
    /\ \A i \in 1..MagicSize : BAt(b, i) = BAt(magic, i)

\* C6: IsSchema(b) is true iff b has at least MagicSize bytes and its first
\* MagicSize bytes are the magic template; bytes appended after them do not
\* change the result.
C6_IsSchemaIffMagicPrefix ==
    res.op = "IsSchema"
    => /\ res.ok = MagicPrefix(stream)
       /\ BLen(stream) >= MagicSize
          => \A n \in {1, maxSize} : IsSchema(BCat(stream, Rep("x", n))) = res.ok

C6_Witness == res.op = "IsSchema" /\ res.ok /\ BLen(stream) > MagicSize

\* C7: Decode, DecodeType and PeekType return exactly ErrNotSchema when the
\* stream is empty, shorter than MagicSize or does not start with the magic
\* template, valid JSON with a registered @type included.
C7_NotSchema ==
    (res.op \in {"Decode", "DecodeType", "PeekType"} /\ ~MagicPrefix(stream))
    => res.err = ErrNotSchema

C7_Witness ==
    /\ res.op = "Decode"
    /\ stream = CompactPin
    /\ ParseObject(stream).ok
    /\ Member(ParseObject(stream).members, typeField) \in DOMAIN typesMap
    /\ res.err = ErrNotSchema

\* C8: when PeekType succeeded, Decode on the reader it returned gives what
\* Decode gives on the original stream, and the type name it reported is
\* the @type of the stream (for an encoded object, the name of its shape).
C8_PeekThenDecode ==
    (res.op = "PeekType+Decode" /\ res.perr = ErrNil)
    => /\ [obj |-> res.obj, err |-> res.err] = Decode(stream)
       /\ res.typ = Member(ParseObject(stream).members, typeField)
       /\ Encoded => res.typ = typeToName[wobj.shape]

C8_Witness ==
    /\ res.op = "PeekType+Decode"
    /\ res.perr = ErrNil
    /\ res.err = ErrNil
    /\ Encoded
    /\ res.obj = wobj

IsTooLarge(e) == e # <<>> /\ e[Len(e)] = ErrTooLarge[1]

\* C9: decoding a stream that starts with the magic template and is longer
\* than maxSize fails with the "too large" error, whether or not its first
\* maxSize bytes are JSON.
C9_TooLarge ==
    (/\ res.op \in {"Decode", "DecodeType", "PeekType"}
     /\ MagicPrefix(stream)
     /\ BLen(stream) > maxSize)
    => /\ IsTooLarge(res.err)
       /\ res.op = "Decode" => res.err = WrapDecode(ErrTooLarge)

C9_Witness ==
    /\ res.op = "Decode"
    /\ stream = BCat(Sample, Rep(" ", maxSize + 1 - BLen(Sample)))
    /\ ParseObject(BTake(stream, maxSize)).ok
    /\ res.err = WrapDecode(ErrTooLarge)

\* C10: after any sequence of registerCAS and RegisterName calls the two
\* maps of the registry agree.
C10_RegistryAgrees == RegistryAgrees

\* C11: Encode of an object whose shape is not registered returns the
\* unsupported-type error and writes no byte; Decode of a stream that has
\* the magic, is below the size cap and whose header names a type that is
\* not registered returns the unsupported-type error (wrapped by
\* DecodeJSON) and no object.
C11_UnsupportedType ==
    /\ (wobj # NoObj /\ wobj.shape \notin DOMAIN typeToName)
       => werr = ErrUnsupported /\ wbuf = <<>>
    /\ (/\ res.op = "Decode"
        /\ MagicPrefix(stream)
        /\ BLen(stream) < maxSize
        /\ ParseObject(stream).ok
        /\ Member(ParseObject(stream).members, typeField) \notin DOMAIN typesMap)
       => res.err = WrapDecode(ErrUnsupported) /\ res.obj = NoObj

C11_Witness ==
    /\ wobj = EmptyObj
    /\ werr = ErrUnsupported
    /\ res.op = "Decode"
    /\ MagicPrefix(stream)
    /\ ParseObject(stream).ok
    /\ res.err = WrapDecode(ErrUnsupported)

\* C12: once Commit has returned on a handle, with nil (the "already
\* exists" outcome included) or with any error, or Close has returned on
\* it, the handle's file descriptor is closed.
C12_DescriptorReleased ==
    \A h \in Handles :
        /\ Returned(h) => fd[h] = "closed"
        /\ (pc[h] = "idle" /\ f[h] = "nil") => fd[h] = "closed"

C12_Witness ==
    \E h \in Handles, g \in Handles :
        /\ ret[h] \in IOFailures /\ fd[h] = "closed"
        /\ ret[g] = "none" /\ pc[g] = "idle" /\ f[g] = "nil" /\ fd[g] = "closed"

\* the names of the blob directory with the content under each
Published == {<<e[1], data[e[2]]>> : e \in blobDir}

\* C13: a Write or a Close on a handle on which no Commit was called
\* changes neither the set of names of the blob directory nor the content
\* under any name.
C13_DiscardPublishesNothing ==
    [][\A h \in Handles :
          (cref[h] = ZeroRef /\ ((\E b \in Bytes : Write(h, b)) \/ Close(h)))
          => (blobDir' = blobDir /\ Published' = Published)]_vars

C13_Witness ==
    \E h \in Handles :
        /\ cref[h] = ZeroRef /\ ret[h] = "none"
        /\ data[h] # <<>>
        /\ f[h] = "nil" /\ pc[h] = "idle"
        /\ blobDir # {}
        /\ \A e \in blobDir : e[2] # h

\* C14: References() of a TransformOp with Src = a, Op = b, Dst = c is the
\* sequence <<a, b, c>>, and so is References() of the object Decode returns
\* for the bytes Encode wrote for it (the registry's two maps agreeing).
C14_ReferencesOrder ==
    /\ \A a \in Refs, b \in Refs, c \in Refs :
           References(TransformOp(a, b, c)) = <<a, b, c>>
    /\ (/\ wobj.shape = "TransformOp"
        /\ werr = ErrNil
        /\ RegistryAgrees
        /\ res.op = "Decode")
       => /\ res.err = ErrNil
          /\ res.obj.shape = "TransformOp"
          /\ References(res.obj) = <<wobj.val[1], wobj.val[2], wobj.val[3]>>

C14_Witness ==
    /\ wobj = TransformOp(1, 2, 3)
    /\ res.op = "Decode"
    /\ res.err = ErrNil
    /\ References(res.obj) = <<1, 2, 3>>

\* C15: Commit records the memoization entry, then marks the staged file
\* read-only, then links it: a handle at the read-only marking has its
\* memoization entry, a handle at the link step or past it has the entry
\* and a read-only file, every file linked in the blob directory is
\* read-only, and a Commit whose read-only marking failed has linked
\* nothing.
C15_CommitStepOrder ==
    \A h \in Handles :
        /\ pc[h] \in {"chmod", "link", "index", "close"} => <<h, cref[h]>> \in memo
        /\ pc[h] \in {"link", "index", "close"} => mode[h] = "ro"
        /\ (\E e \in blobDir : e[2] = h) => mode[h] = "ro" /\ <<h, cref[h]>> \in memo
        /\ ret[h] = "fchmod" => mode[h] = "rw" /\ ~\E e \in blobDir : e[2] = h

C15_Witness ==
    \E h \in Handles, g \in Handles :
        /\ <<RefString(cref[h]), h>> \in blobDir
        /\ mode[h] = "ro"
        /\ ret[g] = "fchmod"
        /\ cref[g] = cref[h]

\* C17: when PeekType returns an error, the reader it returns is not nil and
\* holds every byte of the original stream: the bytes PeekType consumed,
\* then the unread rest.
C17_PeekReplaysOnError ==
    (res.op = "PeekType" /\ res.err # ErrNil /\ stream # <<>>)
    => ~res.nil /\ res.r = stream

\* C18: a stream that has the magic is rejected as too large if and only
\* if its length, magic included, is maxSize or more: one of exactly
\* maxSize bytes is rejected, one of maxSize - 1 bytes is not.
C18_SizeCapBoundary ==
    (res.op \in {"Decode", "DecodeType", "PeekType"} /\ MagicPrefix(stream))
    => (IsTooLarge(res.err) <=> BLen(stream) >= maxSize)

C18_Witness ==
    /\ res.op = "DecodeType"
    /\ BLen(stream) = maxSize
    /\ ParseObject(stream).ok
    /\ res.err = ErrTooLarge

\* C19: a Commit goes past SaveRefFile only with its memoization entry
\* recorded; when SaveRefFile failed, Commit has returned the "save ref"
\* error with the file still writable, nothing linked by this call, and the
\* handle closed.
C19_SaveRefFailureFatal ==
    \A h \in Handles :
        /\ (pc[h] \in {"chmod", "link", "index", "close"}
            \/ (Returned(h) /\ ret[h] # "save ref"))
           => <<h, cref[h]>> \in memo
        /\ ret[h] = "save ref"
           => /\ <<h, cref[h]>> \notin memo
              /\ mode[h] = "rw"
              /\ ~\E e \in blobDir : e[2] = h
              /\ f[h] = "nil" /\ fd[h] = "closed"
              /\ pc[h] = "idle"

C19_Witness ==
    \E h \in Handles :
        /\ ret[h] = "save ref"
        /\ data[h] # <<>>
        /\ Entries(RefString(cref[h])) = {}

\* C20: a handle used sequentially has f.f = nil from its first Commit or
\* Close on and for ever.  With f.f = nil and no Commit running, a step
\* changes nothing of the handle or the store, every Read, Write,
\* SetWriteDeadline and Commit returns ErrClosed and every Close returns
\* nil; a Commit gets past the closed check only on a handle that is open
\* and on which no Commit got past it before, a failed one included.
C20_HandleTerminal ==
    [][\A h \in Handles :
          /\ f[h] = "nil" => f'[h] = "nil"
          /\ (h = TheHandle /\ last' # last /\ last'[1] \in {"Close", "Commit"})
             => f'[h] = "nil"
          /\ (h = TheHandle /\ f[h] = "nil" /\ pc[h] = "idle")
             => /\ UNCHANGED storeVars
                /\ \/ last' = last
                   \/ last' = <<"Close", "nil">>
                   \/ /\ last'[1] \in {"Read", "Write", "SetWriteDeadline", "Commit"}
                      /\ last'[2] = "ErrClosed"
          /\ (pc[h] = "idle" /\ pc'[h] = "save")
             => /\ f[h] = "open"
                /\ cref[h] = ZeroRef /\ ret[h] = "none"]_vars

C20_Witness ==
    /\ ret[TheHandle] \in IOFailures
    /\ f[TheHandle] = "nil"
    /\ last = <<"Commit", "ErrClosed">>

(***************************************************************************)
(* Properties of HashWith.                                                 *)
(***************************************************************************)
IndexHit == hstat.err = "nil" /\ hstat.sr.ref # ZeroRef

\* C16: StatFile is called only when force is false.  When it returned no
\* error and a non-zero Ref, HashWith returns that SizedRef and has read
\* nothing.  Otherwise, the file opening and reading without error,
\* HashWith has read the whole file and returns the hash of its bytes with
\* their number as Size, whether SaveRefFile succeeded or failed; the only
\* errors it returns are those of os.Open and io.Copy.
C16_HashWithIndex ==
    /\ hforce => hstat = NoStat
    /\ hpc = "done"
       => /\ hret.err \in {"nil", "open", "read"}
          /\ hret.err = "open" => hfd = "none" /\ hstat = NoStat
          /\ hret.err = "read" => ~IndexHit
          /\ hret.err = "nil"
             => IF IndexHit
                THEN hret.sr = hstat.sr /\ hread = 0 /\ hsaved = "none"
                ELSE /\ hread = Len(hfile)
                     /\ hsaved # "none"
                     /\ hret.sr = SizedRef(HashOf(hfile), Len(hfile))

C16_Witness ==
    /\ hpc = "done"
    /\ ~hforce
    /\ hstat.err = "nil" /\ hstat.sr = ZeroSized
    /\ Len(hfile) = MaxFileLen
    /\ hsaved = "failed"
    /\ hret = [sr |-> SizedRef(HashOf(hfile), MaxFileLen), err |-> "nil"]

====
